---- MODULE Spec2Model ----
(***************************************************************************)
(* A model of the steamweb package: the request executor apiRequest, the   *)
(* endpoint functions built on it, the vanity-URL and group-member helpers *)
(* and the in-memory result cache.                                         *)
(*                                                                         *)
(* The model follows the current revision of the package                   *)
(* (src/unnamed/part_000 and src/unnamed/part_001).  src/web_api.go is an  *)
(* earlier revision of the same file; where the two differ (apiRequest     *)
(* checks the status before it decodes and has no 429 mapping there) the   *)
(* earlier behaviour appears below only as a named variant.                *)
(*                                                                         *)
(* Strings that the code only compares or measures are TLA+ strings;       *)
(* strings that the code indexes and slices (the vanity query) are         *)
(* sequences of one-character strings.  The clock counts half seconds.     *)
(***************************************************************************)
EXTENDS Integers, Sequences, FiniteSets, TLC

VARIABLES
    apiKey,       \* package variable apiKey
    lang,         \* package variable lang
    cacheValues,  \* cache.values: cacheKey -> cacheValue
    now,          \* reading of the monotonic clock
    last,         \* the most recent call: its arguments, what the stub
                  \* transport was asked and answered, and what it returned
    run           \* the locks and the calls in progress, where calls are
                  \* followed statement by statement (concurrent callers)

vars == <<apiKey, lang, cacheValues, now, last, run>>

----------------------------------------------------------------------------
\* Bounds of the model

MaxNow == 3        \* the clock stops advancing here
MaxPages == 3      \* longest scripted run of stub responses for one call
NumThreads == 3    \* callers of the cache running side by side
MaxClock == 100    \* the clock of the timed calls stops advancing here

----------------------------------------------------------------------------
\* Program constants

StatusOK == 200
StatusServiceUnavailable == 503
StatusTooManyRequests == 429
StatusInternalServerError == 500

Second == 2                      \* time.Second, in clock ticks
defaultRequestTimeout == 20 * Second
maxSteamIDsPerRequest == 100
steam64Len == 17
cacheExpiry == 900

----------------------------------------------------------------------------
\* Error values.  kind "nil" is the nil error.

MkErr(kind, code, msg) == [kind |-> kind, code |-> code, msg |-> msg]

NilErr == MkErr("nil", 0, "")
ErrInvalidResponse == MkErr("ErrInvalidResponse", 0, "Invalid response")
ErrServiceUnavailable == MkErr("ErrServiceUnavailable", 0, "Service Unavailable")
ErrServiceRateLimit == MkErr("ErrServiceRateLimit", 0, "Rate limited")
ErrNoAPIKey == MkErr("ErrNoAPIKey", 0, "No steam web api key")

\* errors.New / errors.Errorf of github.com/pkg/errors
ErrorsNew(msg) == MkErr("new", 0, msg)
ErrInvalidStatus(code) == MkErr("status", code, "Invalid status code received")

\* errors.Wrap / errors.Wrapf of github.com/pkg/errors: wrapping a nil error
\* yields nil
Wrap(err, msg) ==
    IF err = NilErr THEN NilErr
    ELSE MkErr(err.kind, err.code, msg)

\* Errors the transport (HTTPClientHandler.Do) can fail with: an I/O
\* failure, the request context cancelled, the request context past its
\* deadline.
DoErrKinds == {"transport", "canceled", "deadline"}
DoErr(kind) == MkErr(kind, 0, "")

\* Error of json.Decoder.Decode on a body that is not JSON for the target
DecodeErr == MkErr("decode", 0, "")

----------------------------------------------------------------------------
\* url.Values and the request handed to the transport

NilValues == [isNil |-> TRUE, m |-> [x \in {} |-> ""]]
MkValues(m) == [isNil |-> FALSE, m |-> m]
EmptyValues == MkValues([x \in {} |-> ""])

\* url.Values.Set
ValuesSet(m, name, value) ==
    [x \in (DOMAIN m) \cup {name} |-> IF x = name THEN value ELSE m[x]]

\* The parameter names the package uses, in the order url.Values.Encode
\* emits them (sorted by name)
ParamNames ==
    <<"addr", "appid", "class_count", "classid0", "classid1", "format",
      "key", "language", "start", "steamids", "vanityurl", "version">>

\* url.Values.Encode: name/value pairs sorted by name
Encode(m) ==
    LET names == SelectSeq(ParamNames, LAMBDA n : n \in DOMAIN m)
    IN  [i \in 1..Len(names) |-> <<names[i], m[names[i]]>>]

\* http.NewRequestWithContext followed by the optional RawQuery assignment
NewRequest(path) == [path |-> path, RawQuery |-> <<>>]

\* What the server sees for a query parameter: present with this value
HasParam(req, name, value) ==
    \E i \in 1..Len(req.RawQuery) : req.RawQuery[i] = <<name, value>>

HasParamName(req, name) ==
    \E i \in 1..Len(req.RawQuery) : req.RawQuery[i][1] = name

----------------------------------------------------------------------------
\* The stub transport's answer to one Do call:
\*   err     "nil" or one of DoErrKinds
\*   status  HTTP status of the response
\*   valid   whether the body is JSON for the target
\*   data    what a valid body decodes to

MkOut(err, status, valid, data) ==
    [err |-> err, status |-> status, valid |-> valid, data |-> data]

Statuses ==
    {StatusOK, StatusServiceUnavailable, StatusTooManyRequests,
     StatusInternalServerError}

\* The answers for a target whose decoded values are drawn from datas and
\* whose zero value is zero.  Fields that cannot influence the call are
\* fixed so that one answer has one representation.
Outcomes(datas, zero) ==
    {MkOut(k, 0, FALSE, zero) : k \in DoErrKinds}
      \cup {MkOut("nil", s, FALSE, zero) : s \in Statuses}
      \cup {MkOut("nil", s, TRUE, d) : s \in Statuses, d \in datas}

----------------------------------------------------------------------------
\* apiRequest: the result is the error returned, the target after the call,
\* the requests handed to client.Do and the number of Body.Close calls.

ApiRet(err, target, reqs, closed) ==
    [err |-> err, target |-> target, reqs |-> reqs, closed |-> closed]

\* Variant: the status checks without the 429 case, as in src/web_api.go
apiStatusErrNoRateLimit(status) ==
    IF status # StatusOK
    THEN IF status = StatusServiceUnavailable
         THEN ErrServiceUnavailable
         ELSE ErrInvalidStatus(status)
    ELSE NilErr

\* The status checks of apiRequest, reached once the body has been decoded
apiStatusErr(status) ==
    IF status # StatusOK
    THEN IF status = StatusServiceUnavailable
         THEN ErrServiceUnavailable
         ELSE IF status = StatusTooManyRequests
         THEN ErrServiceRateLimit
         ELSE ErrInvalidStatus(status)
    ELSE NilErr

\* Variant: the status checks ahead of the decode, as in src/web_api.go
apiResponseStatusFirst(req, zero, out) ==
    IF apiStatusErr(out.status) # NilErr
    THEN ApiRet(apiStatusErr(out.status), zero, <<req>>, 1)
    ELSE IF ~out.valid
    THEN ApiRet(Wrap(DecodeErr, "Failed to decode JSON response"),
                zero, <<req>>, 1)
    ELSE ApiRet(NilErr, out.data, <<req>>, 1)

\* Variant: the body left open when reading it fails, the Close being
\* deferred only after the read, as in src/web_api.go
apiResponseLeakOnReadError(req, zero, out) ==
    IF ~out.valid
    THEN ApiRet(Wrap(DecodeErr, "Failed to decode JSON response"),
                zero, <<req>>, 0)
    ELSE ApiRet(apiStatusErr(out.status), out.data, <<req>>, 1)

\* apiRequest from the response onwards: the deferred Body.Close, the
\* decode into the target, then the status checks
apiResponse(req, zero, out) ==
    IF ~out.valid
    THEN ApiRet(Wrap(DecodeErr, "Failed to decode JSON response"),
                zero, <<req>>, 1)
    ELSE ApiRet(apiStatusErr(out.status), out.data, <<req>>, 1)

\* Variant: apiRequest calling client.Do a second time when it fails
apiSendRetry(key, path, values, zero, out) ==
    LET req0 == NewRequest(path)
        req  == IF ~values.isNil
                THEN [req0 EXCEPT !.RawQuery =
                        Encode(ValuesSet(ValuesSet(values.m, "key", key),
                                         "format", "json"))]
                ELSE req0
    IN  IF out.err # "nil"
        THEN ApiRet(Wrap(DoErr(out.err), "Failed to perform http request"),
                    zero, <<req, req>>, 0)
        ELSE apiResponse(req, zero, out)

\* apiRequest after the key check: build the request, add key and format
\* to the caller's values, call client.Do
apiSend(key, path, values, zero, out) ==
    LET req0 == NewRequest(path)
        req  == IF ~values.isNil
                THEN [req0 EXCEPT !.RawQuery =
                        Encode(ValuesSet(ValuesSet(values.m, "key", key),
                                         "format", "json"))]
                ELSE req0
    IN  IF out.err # "nil"
        THEN ApiRet(Wrap(DoErr(out.err), "Failed to perform http request"),
                    zero, <<req>>, 0)
        ELSE apiResponse(req, zero, out)

\* Variant: apiRequest without the key check
apiRequestNoKeyCheck(key, path, values, zero, out) ==
    apiSend(key, path, values, zero, out)

apiRequest(key, path, values, zero, out) ==
    IF key = ""
    THEN ApiRet(ErrNoAPIKey, zero, <<>>, 0)
    ELSE apiSend(key, path, values, zero, out)

----------------------------------------------------------------------------
\* The record of a call

\*   op, arg  the function called and its argument
\*   key      apiKey when it was called
\*   err, val what it returned
\*   reqs     the requests it handed to client.Do, in order
\*   outs     the stub's answers to them
\*   calls    what each of its apiRequest invocations returned, in order
\*   at       the clock when it was called
Call(op, arg, key, err, val, reqs, outs, calls, t) ==
    [op |-> op, arg |-> arg, key |-> key, err |-> err, val |-> val,
     reqs |-> reqs, outs |-> outs, calls |-> calls, at |-> t]

NoCall == Call("none", <<>>, "", NilErr, <<>>, <<>>, <<>>, <<>>, 0)

\* What an endpoint function hands back to its action
Ret(err, val, reqs, calls) ==
    [err |-> err, val |-> val, reqs |-> reqs, calls |-> calls]

----------------------------------------------------------------------------
\* Decoded payloads of the endpoints that return their payload as it is.
\* Data(0) is the zero value of the target (a nil slice, an empty struct).

Data(n) == [id |-> n]
ZeroData == Data(0)
Datas == {Data(1), Data(2)}
NilPtr == [nil |-> TRUE]
Ptr(d) == [ref |-> d]

AppIDs == {440}

EconPath(appID, method) ==
    "/IEconItems_" \o ToString(appID) \o "/" \o method

GetAppList(key, out) ==
    LET r == apiRequest(key, "/ISteamApps/GetAppList/v2", NilValues,
                        ZeroData, out)
    IN  IF r.err # NilErr
        THEN Ret(r.err, ZeroData, r.reqs, <<r>>)
        ELSE Ret(NilErr, r.target, r.reqs, <<r>>)

GetSupportedAPIList(key, out) ==
    LET r == apiRequest(key, "/ISteamWebAPIUtil/GetSupportedAPIList/v0001/",
                        EmptyValues, ZeroData, out)
    IN  IF r.err # NilErr
        THEN Ret(r.err, ZeroData, r.reqs, <<r>>)
        ELSE Ret(NilErr, r.target, r.reqs, <<r>>)

GetSchemaOverview(key, appID, out) ==
    LET r == apiRequest(key, EconPath(appID, "GetSchemaOverview/v0001/"),
                        EmptyValues, ZeroData, out)
    IN  IF r.err # NilErr
        THEN Ret(r.err, NilPtr, r.reqs, <<r>>)
        ELSE Ret(NilErr, Ptr(r.target), r.reqs, <<r>>)

GetStoreMetaData(key, appID, out) ==
    LET r == apiRequest(key, EconPath(appID, "GetStoreMetaData/v0001/"),
                        EmptyValues, ZeroData, out)
    IN  IF r.err # NilErr
        THEN Ret(r.err, NilPtr, r.reqs, <<r>>)
        ELSE Ret(NilErr, Ptr(r.target), r.reqs, <<r>>)

\* GetSchemaURL: the payload carries its own status and the URL
SchemaURL(status, u) == [Status |-> status, ItemsGameURL |-> u]
ZeroSchemaURL == SchemaURL(0, "")
SchemaURLs == {SchemaURL(1, "u1"), SchemaURL(1, "u2"), SchemaURL(8, "")}

GetSchemaURL(key, appID, out) ==
    LET r == apiRequest(key, EconPath(appID, "GetSchemaURL/v0001/"),
                        EmptyValues, ZeroSchemaURL, out)
    IN  IF r.err # NilErr
        THEN Ret(r.err, "", r.reqs, <<r>>)
        ELSE IF r.target.Status # 1
        THEN Ret(ErrInvalidResponse, "", r.reqs, <<r>>)
        ELSE Ret(NilErr, r.target.ItemsGameURL, r.reqs, <<r>>)

----------------------------------------------------------------------------
\* GetSchemaItems: the paged listing.  script is the run of answers the stub
\* transport gives to the successive Do calls of one invocation.

Page(items, next) == [Items |-> items, Next |-> next]
ZeroPage == Page(<<>>, 0)
Pages ==
    {Page(<<"a", "b">>, 0), Page(<<"c", "d">>, 0),
     Page(<<"a", "b">>, 1), Page(<<"c", "d">>, 2)}

PageOutcomes ==
    {MkOut("transport", 0, FALSE, ZeroPage),
     MkOut("nil", StatusOK, FALSE, ZeroPage),
     MkOut("nil", StatusServiceUnavailable, TRUE, Page(<<"a", "b">>, 1))}
      \cup {MkOut("nil", StatusOK, TRUE, pg) : pg \in Pages}

\* Variant: the cursor counting the pages fetched
nextPageCounted(page, resp) == page + 1

\* page = resp.Result.Next
nextPage(page, resp) == resp.Next

LoopRet(err, val, reqs, calls, done) ==
    [err |-> err, val |-> val, reqs |-> reqs, calls |-> calls, done |-> done]

\* Variant: the loop appending a page's items before it tests the cursor
RECURSIVE schemaItemsLoopAppendFirst(_, _, _, _, _, _, _)
schemaItemsLoopAppendFirst(key, appID, script, page, items, reqs, calls) ==
    IF key # "" /\ Len(reqs) >= Len(script)
    THEN LoopRet(NilErr, items, reqs, calls, FALSE)
    ELSE
      LET out == IF key = "" THEN MkOut("transport", 0, FALSE, ZeroPage)
                 ELSE script[Len(reqs) + 1]
          r   == apiRequest(key, EconPath(appID, "GetSchemaItems/v1/"),
                            MkValues("start" :> ToString(page)),
                            ZeroPage, out)
      IN  IF r.err # NilErr
          THEN LoopRet(r.err, <<>>, reqs \o r.reqs, Append(calls, r), TRUE)
          ELSE IF r.target.Next = 0
          THEN LoopRet(NilErr, items \o r.target.Items, reqs \o r.reqs,
                       Append(calls, r), TRUE)
          ELSE schemaItemsLoopAppendFirst(key, appID, script, r.target.Next,
                               items \o r.target.Items, reqs \o r.reqs,
                               Append(calls, r))

\* Variant: the loop handing back the items gathered so far when a page
\* request fails
RECURSIVE schemaItemsLoopPartial(_, _, _, _, _, _, _)
schemaItemsLoopPartial(key, appID, script, page, items, reqs, calls) ==
    IF key # "" /\ Len(reqs) >= Len(script)
    THEN LoopRet(NilErr, items, reqs, calls, FALSE)
    ELSE
      LET out == IF key = "" THEN MkOut("transport", 0, FALSE, ZeroPage)
                 ELSE script[Len(reqs) + 1]
          r   == apiRequest(key, EconPath(appID, "GetSchemaItems/v1/"),
                            MkValues("start" :> ToString(page)),
                            ZeroPage, out)
      IN  IF r.err # NilErr
          THEN LoopRet(r.err, items, reqs \o r.reqs, Append(calls, r), TRUE)
          ELSE IF r.target.Next = 0
          THEN LoopRet(NilErr, items, reqs \o r.reqs, Append(calls, r), TRUE)
          ELSE schemaItemsLoopPartial(key, appID, script, r.target.Next,
                               items \o r.target.Items, reqs \o r.reqs,
                               Append(calls, r))

\* One pass of the for loop with the cursor at page and items accumulated;
\* reqs are the requests sent and calls the apiRequest returns so far.
\* done is FALSE when the script ends before the loop does.
RECURSIVE schemaItemsLoop(_, _, _, _, _, _, _)
schemaItemsLoop(key, appID, script, page, items, reqs, calls) ==
    IF key # "" /\ Len(reqs) >= Len(script)
    THEN LoopRet(NilErr, items, reqs, calls, FALSE)
    ELSE
      LET out == IF key = "" THEN MkOut("transport", 0, FALSE, ZeroPage)
                 ELSE script[Len(reqs) + 1]
          r   == apiRequest(key, EconPath(appID, "GetSchemaItems/v1/"),
                            MkValues("start" :> ToString(page)),
                            ZeroPage, out)
      IN  IF r.err # NilErr
          THEN LoopRet(r.err, <<>>, reqs \o r.reqs, Append(calls, r), TRUE)
          ELSE IF r.target.Next = 0
          THEN LoopRet(NilErr, items, reqs \o r.reqs, Append(calls, r), TRUE)
          ELSE schemaItemsLoop(key, appID, script, nextPage(page, r.target),
                               items \o r.target.Items, reqs \o r.reqs,
                               Append(calls, r))

GetSchemaItems(key, appID, script) ==
    schemaItemsLoop(key, appID, script, 0, <<>>, <<>>, <<>>)

\* The scripts of at most n answers
RECURSIVE Scripts(_, _)
Scripts(outs, n) ==
    IF n = 0 THEN {<<>>}
    ELSE LET shorter == Scripts(outs, n - 1)
         IN  shorter \cup {Append(sc, o) : sc \in shorter, o \in outs}

----------------------------------------------------------------------------
\* Strings as sequences of characters, for the code that slices them

purl == <<"s", "t", "e", "a", "m", "c", "o", "m", "m", "u", "n", "i", "t", "y", ".", "c", "o", "m", "/", "p", "r", "o", "f", "i", "l", "e", "s", "/">>
idurl == <<"s", "t", "e", "a", "m", "c", "o", "m", "m", "u", "n", "i", "t", "y", ".", "c", "o", "m", "/", "i", "d", "/">>
https == <<"h", "t", "t", "p", "s", ":", "/", "/">>

Digits == <<"0", "1", "2", "3", "4", "5", "6", "7", "8", "9">>
IsDigit(c) == \E i \in 1..10 : Digits[i] = c
DigitVal(c) == (CHOOSE i \in 1..10 : Digits[i] = c) - 1

\* Variant: the query taken with its spaces
RemoveSpacesNever(q) == q

\* strings.ReplaceAll(query, " ", "")
RemoveSpaces(q) == SelectSeq(q, LAMBDA c : c # " ")

\* strings.Index: the 0-based position of the first occurrence, or -1
Index(q, sub) ==
    LET hits == {i \in 0..(Len(q) - Len(sub)) :
                    SubSeq(q, i + 1, i + Len(sub)) = sub}
    IN  IF hits = {} THEN -1
        ELSE CHOOSE i \in hits : \A j \in hits : i <= j

\* strings.Contains
Contains(q, sub) == Index(q, sub) # -1

\* query[from:]
SliceFrom(q, from) == SubSeq(q, from + 1, Len(q))

\* An int64 as its sign and its decimal digits without leading zeros
Int64(neg, digits) == [neg |-> neg, digits |-> digits]
Int64Zero == Int64(FALSE, <<"0">>)

RECURSIVE StripZeros(_)
StripZeros(ds) ==
    IF Len(ds) > 1 /\ ds[1] = "0" THEN StripZeros(Tail(ds)) ELSE ds

\* ds <= es for digit strings of equal length
RECURSIVE DigitsLeq(_, _)
DigitsLeq(ds, es) ==
    IF ds = <<>> THEN TRUE
    ELSE IF DigitVal(ds[1]) # DigitVal(es[1])
    THEN DigitVal(ds[1]) < DigitVal(es[1])
    ELSE DigitsLeq(Tail(ds), Tail(es))

MaxInt64Digits == <<"9", "2", "2", "3", "3", "7", "2", "0", "3", "6", "8", "5", "4", "7", "7", "5", "8", "0", "7">>
MinInt64Digits == <<"9", "2", "2", "3", "3", "7", "2", "0", "3", "6", "8", "5", "4", "7", "7", "5", "8", "0", "8">>

\* strconv.ParseInt(s, 10, 64): an optional sign, then one or more digits,
\* the value within the int64 range; anything else is an error
ParseInt(str) ==
    LET signed == str # <<>> /\ str[1] \in {"+", "-"}
        neg    == str # <<>> /\ str[1] = "-"
        body   == IF signed THEN Tail(str) ELSE str
        ds     == StripZeros(body)
        limit  == IF neg THEN MinInt64Digits ELSE MaxInt64Digits
        fits   == \/ Len(ds) < Len(limit)
                  \/ Len(ds) = Len(limit) /\ DigitsLeq(ds, limit)
    IN  IF body = <<>> \/ \E i \in 1..Len(body) : ~IsDigit(body[i])
        THEN [err |-> MkErr("syntax", 0, "strconv.ParseInt"),
              value |-> Int64Zero]
        ELSE IF ~fits
        THEN [err |-> MkErr("range", 0, "strconv.ParseInt"),
              value |-> Int64(neg, limit)]
        ELSE [err |-> NilErr,
              value |-> IF ds = <<"0">> THEN Int64Zero ELSE Int64(neg, ds)]

\* strconv.FormatInt(v, 10)
FormatInt(v) == (IF v.neg THEN <<"-">> ELSE <<>>) \o v.digits

----------------------------------------------------------------------------
\* ResolveVanityURL

\* steamid.New over an int64, and the zero SteamID
SteamIDNew(v) == [sid |-> v]
ZeroSteamID == SteamIDNew(Int64Zero)

Resolved(sid, success) == [SteamID |-> sid, Success |-> success]
ZeroResolved == Resolved(ZeroSteamID, 0)
SquirrellyID == SteamIDNew(Int64(FALSE, <<"7", "6", "5", "6", "1", "1", "9", "7", "9", "6", "1", "2", "7", "9", "9", "8", "3">>))
Resolveds == {Resolved(SquirrellyID, 1), Resolved(ZeroSteamID, 42)}

\* query with a trailing "/" removed
\* Variant: the trailing slash left in place
TrimSlashNever(q) == q

TrimSlash(q) == IF q[Len(q)] = "/" THEN SubSeq(q, 1, Len(q) - 1) ELSE q

\* ResolveVanityURL up to the remote call: either the result of the
\* profiles/ branch, or the vanity name to resolve remotely
Parsed(done, ret, name) == [done |-> done, ret |-> ret, name |-> name]

vanityParse(query0) ==
    LET query == RemoveSpaces(query0)
    IN  IF Contains(query, purl)
        THEN
          LET q2     == TrimSlash(query)
              parsed == ParseInt(SliceFrom(q2, Index(q2, purl) + Len(purl)))
              err    == parsed.err
              output == parsed.value
          IN  IF err # NilErr
              THEN Parsed(TRUE, Ret(Wrap(err, "Failed to parse int from query"),
                                    ZeroSteamID, <<>>, <<>>), <<>>)
              ELSE IF Len(FormatInt(output)) # steam64Len
              THEN Parsed(TRUE, Ret(Wrap(err, "Invalid string length"),
                                    ZeroSteamID, <<>>, <<>>), <<>>)
              ELSE Parsed(TRUE, Ret(NilErr, SteamIDNew(output), <<>>, <<>>),
                          <<>>)
        ELSE IF Contains(query, idurl)
        THEN LET q2 == TrimSlash(query)
             IN  Parsed(FALSE, Ret(NilErr, ZeroSteamID, <<>>, <<>>),
                        SliceFrom(q2, Index(q2, idurl) + Len(idurl)))
        ELSE Parsed(FALSE, Ret(NilErr, ZeroSteamID, <<>>, <<>>), query)

\* ResolveVanityURL from the remote call on, for the vanity name
vanityResolve(key, name, out) ==
    LET r == apiRequest(key, "/ISteamUser/ResolveVanityURL/v0001/",
                        MkValues("vanityurl" :> name), ZeroResolved, out)
    IN  IF r.err # NilErr
        THEN Ret(r.err, ZeroSteamID, r.reqs, <<r>>)
        ELSE Ret(NilErr, r.target.SteamID, r.reqs, <<r>>)

ResolveVanityURL(key, query0, out) ==
    LET p == vanityParse(query0)
    IN  IF p.done THEN p.ret ELSE vanityResolve(key, p.name, out)

\* The queries tried: a bare name, the name padded with spaces, the name
\* in an id/ URL, and profiles/ URLs over a range of numeric segments
VanityName == <<"S", "Q">>
ProfileSegments ==
    {<<"1", "2", "3">>,
     <<"7", "6", "5", "6", "1", "1", "9", "7", "9", "6", "1", "2", "7", "9", "9", "8", "3">>,
     <<"-", "1", "2", "3", "4", "5", "6", "7", "8", "9", "0", "1", "2", "3", "4", "5", "6">>,
     <<"1", "2", "a">>,
     <<"9", "9", "9", "9", "9", "9", "9", "9", "9", "9", "9", "9", "9", "9", "9", "9", "9", "9", "9", "9">>,
     <<>>}
VanityQueries ==
    {VanityName,
     <<" ", " ">> \o VanityName \o <<" ", " ", " ">>,
     https \o idurl \o VanityName,
     https \o idurl \o VanityName \o <<"/">>}
      \cup {pre \o purl \o seg \o suf :
              pre \in {<<>>, https}, seg \in ProfileSegments,
              suf \in {<<>>, <<"/">>}}

----------------------------------------------------------------------------
\* GetGroupMembers

GroupID(id, valid) == [id |-> id, valid |-> valid]
GroupIDs == {GroupID(7, TRUE), GroupID(0, FALSE)}

\* One <steamID64>digits</steamID64> match of the members document and
\* whether steamid.New of its digits is a valid id
Member(id, valid) == [id |-> id, valid |-> valid]
MemberLists ==
    {<<>>, <<Member(1, TRUE)>>, <<Member(1, TRUE), Member(2, TRUE)>>,
     <<Member(1, TRUE), Member(0, FALSE)>>}

\* The stub's answer to the members request: the Do error, whether reading
\* the body fails, the matches the body holds
GroupOut(err, readFails, members) ==
    [err |-> err, readFails |-> readFails, members |-> members]
GroupOutcomes ==
    {GroupOut(k, FALSE, <<>>) : k \in DoErrKinds}
      \cup {GroupOut("nil", TRUE, <<>>)}
      \cup {GroupOut("nil", FALSE, ms) : ms \in MemberLists}

errInvalidID == MkErr("errInvalidID", 0, "got invalid id")

GetGroupMembers(groupID, out) ==
    IF ~groupID.valid
    THEN Ret(ErrorsNew("Invalid steam group ID"), <<>>, <<>>, <<>>)
    ELSE
      LET reqErr  == NilErr
          req     == [path |-> "https://steamcommunity.com/gid/"
                                 \o ToString(groupID.id)
                                 \o "/memberslistxml/",
                      RawQuery |-> << <<"xml", "1">> >>]
          respErr == IF out.err = "nil" THEN NilErr ELSE DoErr(out.err)
          bodyErr == IF out.readFails THEN MkErr("read", 0, "") ELSE NilErr
          ms      == out.members
      IN  IF respErr # NilErr
          THEN Ret(Wrap(reqErr, "Failed to perform request"), <<>>, <<req>>, <<>>)
          ELSE IF bodyErr # NilErr
          THEN Ret(Wrap(reqErr, "Failed to read response body"),
                   <<>>, <<req>>, <<>>)
          ELSE IF \E i \in 1..Len(ms) : ~ms[i].valid
          THEN Ret(errInvalidID, <<>>, <<req>>, <<>>)
          ELSE Ret(NilErr, [i \in 1..Len(ms) |-> ms[i].id], <<req>>, <<>>)

----------------------------------------------------------------------------
\* The result cache

ckApps == 0
ckAPIList == 1
ckStoreMetaData == 2
ckSchemaURL == 3
ckSchemaItems == 4
ckSchemaOverview == 5

\* The keys, values and expiry arguments the cache is exercised with
CacheKeys == {ckApps, ckSchemaItems}
CacheData == Datas
Expiries == {<<>>, <<-1>>, <<0>>, <<1>>}

cacheValue(created, maxAge, value) ==
    [Created |-> created, MaxAge |-> maxAge, value |-> value]

\* Variant: an entry expiring as soon as its age reaches MaxAge
expiredAtMaxAge(v, t) == t - v.Created >= v.MaxAge

\* cacheValue.expired with time.Now() = t
expired(v, t) == t - v.Created > v.MaxAge

\* The nil interface value
NilAny == [nil |-> TRUE]

GetRet(ret, found) == [ret |-> ret, found |-> found]

\* memoryCache.get with time.Now() = t
cacheGet(values, key, t) ==
    IF key \notin DOMAIN values
    THEN GetRet(NilAny, FALSE)
    ELSE LET v == values[key]
         IN  IF expired(v, t)
             THEN GetRet(v, FALSE)
             ELSE GetRet(v, TRUE)

\* Variant: get dropping the entry it finds expired
cacheAfterGetEvict(values, key, t) ==
    IF key \in DOMAIN values /\ expired(values[key], t)
    THEN [k \in (DOMAIN values) \ {key} |-> values[k]]
    ELSE values

\* The map after memoryCache.get: get holds the read lock and writes
\* nothing
cacheAfterGet(values, key, t) == values

\* memoryCache.set with time.Now() = t; customExpiry is the variadic
\* argument list
cacheSet(values, key, value, customExpiry, t) ==
    LET exp == IF Len(customExpiry) > 0 THEN customExpiry[1] ELSE cacheExpiry
        cv  == cacheValue(t, exp * Second, value)
    IN  [k \in (DOMAIN values) \cup {key} |->
            IF k = key THEN cv ELSE values[k]]

----------------------------------------------------------------------------
\* SetKey

KeyA == "aaaaaaaaaaaaaaaaaaaaaaaaaaaaaaaa"
KeyB == "bbbbbbbbbbbbbbbbbbbbbbbbbbbbbbbb"
KeyInputs == {"", KeyA, KeyB, "short"}

\* The error SetKey returns for key and the key stored afterwards
SetKeyRet(err, key) == [err |-> err, key |-> key]

\* Variant: SetKey storing whatever it is given
setKeyNoCheck(current, key) == SetKeyRet(NilErr, key)

setKey(current, key) ==
    IF Len(key) # 32 /\ Len(key) # 0
    THEN SetKeyRet(ErrorsNew("Tried to set invalid key"), current)
    ELSE SetKeyRet(NilErr, key)

----------------------------------------------------------------------------
\* SetLang.  The language is a sequence of characters.

DefaultLang == <<"e", "n", "_", "U", "S">>

\* The language code is checked by len(), a count of bytes, and lower-cased
\* by strings.ToLower, which maps rune by rune: a rune is written as a
\* one-character string when it is ASCII and by its name otherwise.
KelvinSign == "KELVIN SIGN"

\* Bytes of the UTF-8 encoding of a rune (U+212A takes three)
Width(r) == IF r = KelvinSign THEN 3 ELSE 1

RECURSIVE ByteLen(_)
ByteLen(str) ==
    IF str = <<>> THEN 0 ELSE Width(Head(str)) + ByteLen(Tail(str))

\* unicode.ToLower on the runes of the inputs
ToLowerRune(r) ==
    CASE r = "U" -> "u"
      [] r = "S" -> "s"
      [] r = "D" -> "d"
      [] r = "E" -> "e"
      [] r = "R" -> "r"
      [] r = KelvinSign -> "k"
      [] OTHER -> r

ToLower(str) == [i \in 1..Len(str) |-> ToLowerRune(str[i])]

invalidLangStringLen == 5

LangInputs ==
    {<<"e", "n", "_", "U", "S">>,
     <<"e", "n", "_", "u", "s">>,
     <<"d", "e", "_", "D", "E">>,
     <<KelvinSign, "_", "R">>,
     <<"e", "n">>,
     <<"e", "n", "_", "U", "S", "A">>,
     <<>>}

SetLangRet(err, l) == [err |-> err, lang |-> l]

setLang(current, newLang) ==
    IF ByteLen(newLang) # invalidLangStringLen
    THEN SetLangRet(ErrorsNew("Invalid ISO_639-1 language code"), current)
    ELSE SetLangRet(NilErr, ToLower(newLang))

----------------------------------------------------------------------------
\* PlayerSummaries and GetPlayerBans.  A steam id is its offset from
\* 76561197960260000; a collection is a sequence of ids.

SteamIDString(sid) == "7656119796026" \o ToString(sid)

ToStringSlice(steamIDs) ==
    [i \in 1..Len(steamIDs) |-> SteamIDString(steamIDs[i])]

\* strings.Join, on the elements lo..hi, by halves
RECURSIVE JoinRange(_, _, _, _)
JoinRange(elems, sep, lo, hi) ==
    IF lo > hi THEN ""
    ELSE IF lo = hi THEN elems[lo]
    ELSE LET mid == (lo + hi) \div 2
         IN  JoinRange(elems, sep, lo, mid) \o sep
               \o JoinRange(elems, sep, mid + 1, hi)

Join(elems, sep) == JoinRange(elems, sep, 1, Len(elems))

Collection(n) == [i \in 1..n |-> 1000 + i]

BatchSizes ==
    {0, 1, 2, maxSteamIDsPerRequest, maxSteamIDsPerRequest + 1}

Collections == {Collection(n) : n \in BatchSizes}

Players(list) == [Players |-> list]
ZeroPlayers == Players(<<>>)
PlayerLists == {Players(<<"p1">>), Players(<<"p1", "p2">>)}

\* Variant: PlayerSummaries turning away a batch of exactly the maximum
PlayerSummariesOffByOne(key, steamIDs, out) ==
    IF Len(steamIDs) = 0
    THEN Ret(ErrorsNew("Too few steam ids, min 1"), <<>>, <<>>, <<>>)
    ELSE IF Len(steamIDs) >= maxSteamIDsPerRequest
    THEN Ret(ErrorsNew("Too many steam ids, max 100"), <<>>, <<>>, <<>>)
    ELSE
      LET r == apiRequest(key, "/ISteamUser/GetPlayerSummaries/v0002/",
                          MkValues("steamids" :>
                                     Join(ToStringSlice(steamIDs), ",")),
                          ZeroPlayers, out)
      IN  IF r.err # NilErr
          THEN Ret(r.err, <<>>, r.reqs, <<r>>)
          ELSE Ret(NilErr, r.target.Players, r.reqs, <<r>>)

PlayerSummaries(key, steamIDs, out) ==
    IF Len(steamIDs) = 0
    THEN Ret(ErrorsNew("Too few steam ids, min 1"), <<>>, <<>>, <<>>)
    ELSE IF Len(steamIDs) > maxSteamIDsPerRequest
    THEN Ret(ErrorsNew("Too many steam ids, max 100"), <<>>, <<>>, <<>>)
    ELSE
      LET r == apiRequest(key, "/ISteamUser/GetPlayerSummaries/v0002/",
                          MkValues("steamids" :>
                                     Join(ToStringSlice(steamIDs), ",")),
                          ZeroPlayers, out)
      IN  IF r.err # NilErr
          THEN Ret(r.err, <<>>, r.reqs, <<r>>)
          ELSE Ret(NilErr, r.target.Players, r.reqs, <<r>>)

GetPlayerBans(key, steamIDs, out) ==
    IF Len(steamIDs) = 0
    THEN Ret(ErrorsNew("Too few steam ids, min 1"), <<>>, <<>>, <<>>)
    ELSE IF Len(steamIDs) > maxSteamIDsPerRequest
    THEN Ret(ErrorsNew("Too many steam ids, max 100"), <<>>, <<>>, <<>>)
    ELSE
      LET r == apiRequest(key, "/ISteamUser/GetPlayerBans/v1/",
                          MkValues("steamids" :>
                                     Join(ToStringSlice(steamIDs), ",")),
                          ZeroPlayers, out)
      IN  IF r.err # NilErr
          THEN Ret(r.err, <<>>, r.reqs, <<r>>)
          ELSE Ret(NilErr, r.target.Players, r.reqs, <<r>>)

----------------------------------------------------------------------------
\* The endpoints whose payload carries its own success indicator, beside
\* GetSchemaURL.

\* errors.Is: the sentinels are told apart by kind, which Wrap keeps; an
\* error made by errors.New on the spot is no sentinel
ErrorsIs(err, target) == err # NilErr /\ err.kind = target.kind

\* UpToDateCheck: VersionCheckInfo
VersionCheckInfo(success, upToDate) ==
    [Success |-> success, UpToDate |-> upToDate]
ZeroVersionCheckInfo == VersionCheckInfo(FALSE, FALSE)
VersionCheckInfos ==
    {VersionCheckInfo(TRUE, TRUE), VersionCheckInfo(FALSE, TRUE)}
Versions == {1}

UpToDateCheck(key, appID, version, out) ==
    LET r == apiRequest(key, "/ISteamApps/UpToDateCheck/v1",
                        MkValues(("appid" :> ToString(appID))
                                   @@ ("version" :> ToString(version))),
                        ZeroVersionCheckInfo, out)
    IN  IF r.err # NilErr
        THEN Ret(r.err, NilPtr, r.reqs, <<r>>)
        ELSE IF ~r.target.Success
        THEN Ret(ErrInvalidResponse, NilPtr, r.reqs, <<r>>)
        ELSE Ret(NilErr, Ptr(r.target), r.reqs, <<r>>)

\* GetNumberOfCurrentPlayers
CurrentPlayers(count, result) == [PlayerCount |-> count, Result |-> result]
ZeroCurrentPlayers == CurrentPlayers(0, 0)
CurrentPlayersSet == {CurrentPlayers(5, 1), CurrentPlayers(5, 42)}

GetNumberOfCurrentPlayers(key, appID, out) ==
    LET r == apiRequest(key, "/ISteamUserStats/GetNumberOfCurrentPlayers/v1",
                        MkValues("appid" :> ToString(appID)),
                        ZeroCurrentPlayers, out)
    IN  IF r.err # NilErr
        THEN Ret(r.err, 0, r.reqs, <<r>>)
        ELSE IF r.target.Result # 1
        THEN Ret(ErrInvalidResponse, 0, r.reqs, <<r>>)
        ELSE Ret(NilErr, r.target.PlayerCount, r.reqs, <<r>>)

\* GetServersAtAddress
ServersAt(success, servers) == [Success |-> success, Servers |-> servers]
ZeroServersAt == ServersAt(FALSE, <<>>)
ServersAtSet == {ServersAt(TRUE, <<"srv">>), ServersAt(FALSE, <<>>)}
Addrs == {"1.2.3.4"}

GetServersAtAddress(key, ipAddr, out) ==
    LET r == apiRequest(key, "/ISteamApps/GetServersAtAddress/v0001",
                        MkValues("addr" :> ipAddr), ZeroServersAt, out)
    IN  IF r.err # NilErr
        THEN Ret(r.err, <<>>, r.reqs, <<r>>)
        ELSE IF ~r.target.Success
        THEN Ret(ErrorsNew("Invalid response"), <<>>, r.reqs, <<r>>)
        ELSE Ret(NilErr, r.target.Servers, r.reqs, <<r>>)

\* GetAssetClassInfo.  The result map is its "success" entry - "absent",
\* the booleans "true" and "false", or "string" for a value of another
\* type - and its other entries, which
\* mapstructure can decode or not.  The assets come back in the order the
\* map is ranged over, which Go leaves open: they are a set here.
AssetResult(success, others, decodable) ==
    [success |-> success, others |-> others, decodable |-> decodable]
ZeroAssetResult == AssetResult("absent", {}, TRUE)
AssetResults ==
    {AssetResult("true", {"asset"}, TRUE),
     AssetResult("true", {"asset"}, FALSE),
     AssetResult("false", {}, TRUE),
     AssetResult("string", {"asset"}, TRUE),
     AssetResult("absent", {"asset"}, TRUE)}
ClassIDLists == {<<>>, <<7>>}

\* The classid parameters added by the loop over classIDs
RECURSIVE classValues(_, _, _)
classValues(m, classIDs, i) ==
    IF i >= Len(classIDs) THEN m
    ELSE classValues(ValuesSet(m, "classid" \o ToString(i),
                               ToString(classIDs[i + 1])),
                     classIDs, i + 1)

GetAssetClassInfo(key, language, appID, classIDs, out) ==
    LET values == classValues(("appid" :> ToString(appID))
                                @@ ("language" :> language)
                                @@ ("class_count" :> ToString(Len(classIDs))),
                              classIDs, 0)
        r == apiRequest(key, "/ISteamEconomy/GetAssetClassInfo/v0001",
                        MkValues(values), ZeroAssetResult, out)
        found   == r.target.success # "absent"
        ok      == r.target.success \in {"true", "false"}
        success == r.target.success = "true"
    IN  IF r.err # NilErr
        THEN Ret(r.err, {}, r.reqs, <<r>>)
        ELSE IF ~ok
        THEN Ret(ErrorsNew("Failed to cast success value"), {}, r.reqs,
                 <<r>>)
        ELSE IF ~found \/ ~success
        THEN Ret(ErrInvalidResponse, {}, r.reqs, <<r>>)
        ELSE IF ~r.target.decodable
        THEN Ret(Wrap(MkErr("mapstructure", 0, ""),
                      "Failed to decode mapstructure"), {}, r.reqs, <<r>>)
        ELSE Ret(NilErr, r.target.others, r.reqs, <<r>>)

----------------------------------------------------------------------------
\* No call is being followed statement by statement
NoRun == [kind |-> "none"]

----------------------------------------------------------------------------
\* The state machine

Init ==
    /\ apiKey \in {"", KeyA}       \* STEAM_TOKEN unset, or set to a key
    /\ lang = DefaultLang
    /\ cacheValues = [k \in {} |-> NilAny]
    /\ now = 0
    /\ last = NoCall
    /\ run = NoRun

\* The record of an endpoint call whose Do call, if it made one, was
\* answered with out.  A call that never reaches client.Do is offered one
\* answer only, the first of outs, so that it is recorded once.
Answered(op, arg, r, out, outs) ==
    /\ r.reqs # <<>> \/ out = CHOOSE o \in outs : TRUE
    /\ last' = Call(op, arg, apiKey, r.err, r.val, r.reqs,
                    IF r.reqs = <<>> THEN <<>> ELSE <<out>>, r.calls, now)

SimpleOutcomes == Outcomes(Datas, ZeroData)
SchemaURLOutcomes == Outcomes(SchemaURLs, ZeroSchemaURL)
ResolveOutcomes == Outcomes(Resolveds, ZeroResolved)

SetKey ==
    \E key \in KeyInputs :
      LET r == setKey(apiKey, key)
      IN  /\ apiKey' = r.key
          /\ last' = Call("SetKey", key, apiKey, r.err, r.key,
                          <<>>, <<>>, <<>>, now)
          /\ UNCHANGED <<lang, cacheValues, now, run>>

DoGetAppList ==
    \E out \in SimpleOutcomes :
      /\ Answered("GetAppList", <<>>, GetAppList(apiKey, out), out,
                  SimpleOutcomes)
      /\ UNCHANGED <<apiKey, lang, cacheValues, now, run>>

DoGetSupportedAPIList ==
    \E out \in SimpleOutcomes :
      /\ Answered("GetSupportedAPIList", <<>>,
                  GetSupportedAPIList(apiKey, out), out,
                  SimpleOutcomes)
      /\ UNCHANGED <<apiKey, lang, cacheValues, now, run>>

DoGetSchemaOverview ==
    \E appID \in AppIDs, out \in SimpleOutcomes :
      /\ Answered("GetSchemaOverview", appID,
                  GetSchemaOverview(apiKey, appID, out), out,
                  SimpleOutcomes)
      /\ UNCHANGED <<apiKey, lang, cacheValues, now, run>>

DoGetStoreMetaData ==
    \E appID \in AppIDs, out \in SimpleOutcomes :
      /\ Answered("GetStoreMetaData", appID,
                  GetStoreMetaData(apiKey, appID, out), out,
                  SimpleOutcomes)
      /\ UNCHANGED <<apiKey, lang, cacheValues, now, run>>

DoGetSchemaURL ==
    \E appID \in AppIDs, out \in SchemaURLOutcomes :
      /\ Answered("GetSchemaURL", appID,
                  GetSchemaURL(apiKey, appID, out), out,
                  SchemaURLOutcomes)
      /\ UNCHANGED <<apiKey, lang, cacheValues, now, run>>

\* The scripts GetSchemaItems runs to its end on, using every answer
SchemaScripts ==
    {sc \in Scripts(PageOutcomes, MaxPages) :
        LET r == GetSchemaItems(KeyA, 440, sc)
        IN  r.done /\ Len(r.reqs) = Len(sc)}

DoGetSchemaItems ==
    \E appID \in AppIDs,
       script \in (IF apiKey = "" THEN {<<>>} ELSE SchemaScripts) :
      LET r == GetSchemaItems(apiKey, appID, script)
      IN  /\ last' = Call("GetSchemaItems", appID, apiKey, r.err, r.val,
                          r.reqs, script, r.calls, now)
          /\ UNCHANGED <<apiKey, lang, cacheValues, now, run>>

DoResolveVanityURL ==
    \E query \in VanityQueries :
      LET p == vanityParse(query)
      IN  /\ IF p.done
             THEN Answered("ResolveVanityURL", query, p.ret,
                           CHOOSE o \in ResolveOutcomes : TRUE,
                           ResolveOutcomes)
             ELSE \E out \in ResolveOutcomes :
                    Answered("ResolveVanityURL", query,
                             vanityResolve(apiKey, p.name, out),
                             out, ResolveOutcomes)
          /\ UNCHANGED <<apiKey, lang, cacheValues, now, run>>

DoGetGroupMembers ==
    \E groupID \in GroupIDs, out \in GroupOutcomes :
      /\ Answered("GetGroupMembers", groupID,
                  GetGroupMembers(groupID, out), out, GroupOutcomes)
      /\ UNCHANGED <<apiKey, lang, cacheValues, now, run>>

\* The clock advances between calls
Tick ==
    /\ now < MaxNow
    /\ now' = now + 1
    /\ UNCHANGED <<apiKey, lang, cacheValues, last, run>>

CacheGet ==
    \E key \in CacheKeys :
      /\ last' = Call("get", key, apiKey, NilErr,
                      cacheGet(cacheValues, key, now), <<>>, <<>>, <<>>, now)
      /\ cacheValues' = cacheAfterGet(cacheValues, key, now)
      /\ UNCHANGED <<apiKey, lang, now, run>>

\* set returns nothing; the call records in val the entry it replaced, nil
\* when the key was not set
CacheSet ==
    \E key \in CacheKeys, value \in CacheData, customExpiry \in Expiries :
      /\ cacheValues' = cacheSet(cacheValues, key, value, customExpiry, now)
      /\ last' = Call("set", <<key, value, customExpiry>>, apiKey, NilErr,
                      IF key \in DOMAIN cacheValues THEN cacheValues[key]
                      ELSE NilAny,
                      <<>>, <<>>, <<>>, now)
      /\ UNCHANGED <<apiKey, lang, now, run>>

\* The package as a caller drives it: configuration and endpoint calls.
\* No endpoint function reads the clock.
\* SetLang; the call records the language it found in val
SetLang ==
    \E newLang \in LangInputs :
      LET r == setLang(lang, newLang)
      IN  /\ lang' = r.lang
          /\ last' = Call("SetLang", newLang, apiKey, r.err, lang,
                          <<>>, <<>>, <<>>, now)
          /\ UNCHANGED <<apiKey, cacheValues, now, run>>

PlayerOutcomes == Outcomes(PlayerLists, ZeroPlayers)

DoPlayerSummaries ==
    \E steamIDs \in Collections, out \in PlayerOutcomes :
      /\ Answered("PlayerSummaries", steamIDs,
                  PlayerSummaries(apiKey, steamIDs, out), out,
                  PlayerOutcomes)
      /\ UNCHANGED <<apiKey, lang, cacheValues, now, run>>

DoGetPlayerBans ==
    \E steamIDs \in Collections, out \in PlayerOutcomes :
      /\ Answered("GetPlayerBans", steamIDs,
                  GetPlayerBans(apiKey, steamIDs, out), out,
                  PlayerOutcomes)
      /\ UNCHANGED <<apiKey, lang, cacheValues, now, run>>

Next ==
    \/ SetKey
    \/ DoGetAppList
    \/ DoGetSupportedAPIList
    \/ DoGetSchemaOverview
    \/ DoGetStoreMetaData
    \/ DoGetSchemaURL
    \/ DoGetSchemaItems
    \/ DoResolveVanityURL
    \/ DoGetGroupMembers

Spec == Init /\ [][Next]_vars

\* The cache and the clock it reads: no endpoint function touches it
NextCache ==
    \/ CacheGet
    \/ CacheSet
    \/ Tick

SpecCache == Init /\ [][NextCache]_vars

----------------------------------------------------------------------------
\* apiRequest and SetKey statement by statement, one goroutine each.
\* apiRequest reads the package variable apiKey twice, for the emptiness
\* test and for values.Set, and takes no lock for either read; SetKey
\* stores under cfgMu.Lock, which therefore excludes nothing apiRequest
\* does.  The reads race with the store.  A Go string is a pointer and a
\* length, stored as two words: a read during the store gives the old
\* string, the new string, or the pointer of one with the length of the
\* other.

\* The string a torn read gives when one of the two is empty: length 32 on a
\* nil pointer.  It is not empty, and reading its bytes faults.
TornKey == "<nil pointer, length 32>"

\* What a read of apiKey can give while the goroutine of SetKey is at pc
\* with the key it stores
RacyReads(stored, pc, key) ==
    IF pc # "storing" THEN {stored}
    ELSE {stored, key}
           \cup (IF (stored = "") # (key = "") THEN {"", TornKey} ELSE {})

RaceRun(req, tested, sent, set, key) ==
    [kind |-> "race", req |-> req, tested |-> tested, sent |-> sent,
     set |-> set, key |-> key]

InitRace ==
    /\ apiKey \in {"", KeyA}
    /\ lang = DefaultLang
    /\ cacheValues = [k \in {} |-> NilAny]
    /\ now = 0
    /\ last = NoCall
    /\ run = RaceRun("idle", "", "", "idle", "")

\* if apiKey == "" { return ErrNoAPIKey }
ReqCheck ==
    /\ run.req = "idle"
    /\ \E k \in RacyReads(apiKey, run.set, run.key) :
         IF k = ""
         THEN /\ last' = Call("apiRequest", EmptyValues, k, ErrNoAPIKey,
                              ZeroData, <<>>, <<>>, <<>>, now)
              /\ UNCHANGED run
         ELSE /\ run' = [run EXCEPT !.req = "checked", !.tested = k]
              /\ UNCHANGED last
    /\ UNCHANGED <<apiKey, lang, cacheValues, now>>

\* values.Set("key", apiKey)
ReqBuild ==
    /\ run.req = "checked"
    /\ \E k \in RacyReads(apiKey, run.set, run.key) :
         run' = [run EXCEPT !.req = "built", !.sent = k]
    /\ UNCHANGED <<apiKey, lang, cacheValues, now, last>>

\* values.Encode() and client.Do(req), to the return of apiRequest.
\* Encoding the torn string faults and ends the program.
ReqSend ==
    /\ run.req = "built"
    /\ IF run.sent = TornKey
       THEN /\ run' = [run EXCEPT !.req = "fault"]
            /\ UNCHANGED last
       ELSE \E out \in SimpleOutcomes :
              LET r == apiSend(run.sent, "/ISteamApps/GetAppList/v2/",
                               EmptyValues, ZeroData, out)
              IN  /\ last' = Call("apiRequest", EmptyValues, run.tested,
                                  r.err, r.target, r.reqs, <<out>>, <<r>>,
                                  now)
                  /\ run' = [run EXCEPT !.req = "idle", !.tested = "",
                                        !.sent = ""]
    /\ UNCHANGED <<apiKey, lang, cacheValues, now>>

\* SetKey: the length check, then cfgMu.Lock()
SetKeyLock ==
    /\ run.req # "fault"
    /\ run.set = "idle"
    /\ \E key \in KeyInputs :
         IF setKey(apiKey, key).err # NilErr
         THEN /\ last' = Call("SetKey", key, apiKey,
                              setKey(apiKey, key).err, apiKey,
                              <<>>, <<>>, <<>>, now)
              /\ UNCHANGED run
         ELSE /\ run' = [run EXCEPT !.set = "locked", !.key = key]
              /\ UNCHANGED last
    /\ UNCHANGED <<apiKey, lang, cacheValues, now>>

\* apiKey = key, the store begun
SetKeyStore ==
    /\ run.req # "fault"
    /\ run.set = "locked"
    /\ run' = [run EXCEPT !.set = "storing"]
    /\ UNCHANGED <<apiKey, lang, cacheValues, now, last>>

\* apiKey = key, the store complete
SetKeyStored ==
    /\ run.req # "fault"
    /\ run.set = "storing"
    /\ apiKey' = setKey(apiKey, run.key).key
    /\ run' = [run EXCEPT !.set = "stored"]
    /\ UNCHANGED <<lang, cacheValues, now, last>>

\* cfgMu.Unlock(); return nil
SetKeyUnlock ==
    /\ run.req # "fault"
    /\ run.set = "stored"
    /\ last' = Call("SetKey", run.key, apiKey, NilErr, apiKey,
                    <<>>, <<>>, <<>>, now)
    /\ run' = [run EXCEPT !.set = "idle", !.key = ""]
    /\ UNCHANGED <<apiKey, lang, cacheValues, now>>

NextRace ==
    \/ ReqCheck
    \/ ReqBuild
    \/ ReqSend
    \/ SetKeyLock
    \/ SetKeyStore
    \/ SetKeyStored
    \/ SetKeyUnlock

SpecRace == InitRace /\ [][NextRace]_vars

----------------------------------------------------------------------------
\* The cache with several callers at once, statement by statement.  Each
\* caller makes one call of get or set.  cache embeds a sync.RWMutex:
\* w is the goroutine holding it for writing or waiting for the readers to
\* leave (0 for none), readers the goroutines holding it for reading.  A
\* call of RLock made while a writer holds or awaits the lock blocks until
\* that writer has released it.

Threads == 1..NumThreads

ConcKey == ckApps

\* The value and the customExpiry arguments of a set
SetInputs == {<<Data(1), <<>>>>, <<Data(2), <<1>>>>}

NoArgs == <<NilAny, <<>>>>
NoRet == GetRet(NilAny, FALSE)

Thr(pc, args, ret) == [pc |-> pc, args |-> args, ret |-> ret]

ConcRun(w, readers, thr) ==
    [kind |-> "cache", w |-> w, readers |-> readers, thr |-> thr]

InitConc ==
    /\ apiKey = ""
    /\ lang = DefaultLang
    /\ cacheValues = [k \in {} |-> NilAny]
    /\ now = 0
    /\ last = NoCall
    /\ run = ConcRun(0, {}, [t \in Threads |-> Thr("idle", NoArgs, NoRet)])

\* The frame of a step of the concurrent cache that leaves the map alone
ConcStep(t, w, readers, th) ==
    /\ run' = ConcRun(w, readers, [run.thr EXCEPT ![t] = th])
    /\ UNCHANGED <<apiKey, lang, now, last>>

\* Variant: RLock letting a reader in whatever the writer does
RLockAlways(w) == TRUE

\* RLock goes through when no writer holds or awaits the lock
RLockReady(w) == w = 0

\* A caller enters get
GetCall(t) ==
    /\ run.thr[t].pc = "idle"
    /\ ConcStep(t, run.w, run.readers, Thr("rlock", NoArgs, NoRet))
    /\ UNCHANGED cacheValues

\* c.RLock()
GetRLock(t) ==
    /\ run.thr[t].pc = "rlock"
    /\ RLockReady(run.w)
    /\ ConcStep(t, run.w, run.readers \cup {t}, Thr("read", NoArgs, NoRet))
    /\ UNCHANGED cacheValues

\* The map lookup, the expiry test and the choice of the results
GetRead(t) ==
    /\ run.thr[t].pc = "read"
    /\ ConcStep(t, run.w, run.readers,
                Thr("runlock", NoArgs, cacheGet(cacheValues, ConcKey, now)))
    /\ UNCHANGED cacheValues

\* The deferred c.RUnlock() and the return
GetRUnlock(t) ==
    /\ run.thr[t].pc = "runlock"
    /\ ConcStep(t, run.w, run.readers \ {t}, Thr("done", NoArgs, NoRet))
    /\ UNCHANGED cacheValues

\* A caller enters set
SetCall(t) ==
    /\ run.thr[t].pc = "idle"
    /\ \E args \in SetInputs : ConcStep(t, run.w, run.readers,
                                         Thr("lock", args, NoRet))
    /\ UNCHANGED cacheValues

\* c.Lock(): the writers' turn taken, new readers held back from here on
SetLock(t) ==
    /\ run.thr[t].pc = "lock"
    /\ run.w = 0
    /\ ConcStep(t, t, run.readers, Thr("wait", run.thr[t].args, NoRet))
    /\ UNCHANGED cacheValues

\* c.Lock(): the readers inside have left
SetLocked(t) ==
    /\ run.thr[t].pc = "wait"
    /\ run.readers = {}
    /\ ConcStep(t, run.w, run.readers, Thr("store", run.thr[t].args, NoRet))
    /\ UNCHANGED cacheValues

\* c.values[key] = cacheValue{...}: the store begun, Created and MaxAge
\* in place and the value not yet
SetStore(t) ==
    /\ run.thr[t].pc = "store"
    /\ LET args == run.thr[t].args
           full == cacheSet(cacheValues, ConcKey, args[1], args[2], now)
       IN  cacheValues' =
             [full EXCEPT ![ConcKey].value =
                 IF ConcKey \in DOMAIN cacheValues
                 THEN cacheValues[ConcKey].value ELSE NilAny]
    /\ ConcStep(t, run.w, run.readers, Thr("storing", run.thr[t].args, NoRet))

\* c.values[key] = cacheValue{...}: the store complete
SetStored(t) ==
    /\ run.thr[t].pc = "storing"
    /\ LET args == run.thr[t].args
       IN  cacheValues' = cacheSet(cacheValues, ConcKey, args[1], args[2],
                                   now)
    /\ ConcStep(t, run.w, run.readers, Thr("unlock", run.thr[t].args, NoRet))

\* The deferred c.Unlock() and the return
SetUnlock(t) ==
    /\ run.thr[t].pc = "unlock"
    /\ ConcStep(t, 0, run.readers, Thr("done", NoArgs, NoRet))
    /\ UNCHANGED cacheValues

\* A step of a call under way
Proceed(t) ==
    \/ GetRLock(t)
    \/ GetRead(t)
    \/ GetRUnlock(t)
    \/ SetLock(t)
    \/ SetLocked(t)
    \/ SetStore(t)
    \/ SetStored(t)
    \/ SetUnlock(t)

NextConc ==
    \E t \in Threads :
      \/ GetCall(t)
      \/ SetCall(t)
      \/ Proceed(t)

\* The scheduler runs every goroutine that can run
SpecConc ==
    /\ InitConc
    /\ [][NextConc]_vars
    /\ \A t \in Threads : WF_vars(Proceed(t))

VersionOutcomes == Outcomes(VersionCheckInfos, ZeroVersionCheckInfo)
CurrentPlayersOutcomes == Outcomes(CurrentPlayersSet, ZeroCurrentPlayers)
ServersAtOutcomes == Outcomes(ServersAtSet, ZeroServersAt)
AssetOutcomes == Outcomes(AssetResults, ZeroAssetResult)

DoUpToDateCheck ==
    \E appID \in AppIDs, version \in Versions, out \in VersionOutcomes :
      /\ Answered("UpToDateCheck", <<appID, version>>,
                  UpToDateCheck(apiKey, appID, version, out), out,
                  VersionOutcomes)
      /\ UNCHANGED <<apiKey, lang, cacheValues, now, run>>

DoGetNumberOfCurrentPlayers ==
    \E appID \in AppIDs, out \in CurrentPlayersOutcomes :
      /\ Answered("GetNumberOfCurrentPlayers", appID,
                  GetNumberOfCurrentPlayers(apiKey, appID, out), out,
                  CurrentPlayersOutcomes)
      /\ UNCHANGED <<apiKey, lang, cacheValues, now, run>>

DoGetServersAtAddress ==
    \E ipAddr \in Addrs, out \in ServersAtOutcomes :
      /\ Answered("GetServersAtAddress", ipAddr,
                  GetServersAtAddress(apiKey, ipAddr, out), out,
                  ServersAtOutcomes)
      /\ UNCHANGED <<apiKey, lang, cacheValues, now, run>>

DoGetAssetClassInfo ==
    \E appID \in AppIDs, classIDs \in ClassIDLists, out \in AssetOutcomes :
      /\ Answered("GetAssetClassInfo", <<appID, classIDs>>,
                  GetAssetClassInfo(apiKey, lang, appID, classIDs, out), out,
                  AssetOutcomes)
      /\ UNCHANGED <<apiKey, lang, cacheValues, now, run>>

\* The endpoints that test a success indicator of their payload
NextFlags ==
    \/ SetKey
    \/ DoUpToDateCheck
    \/ DoGetNumberOfCurrentPlayers
    \/ DoGetSchemaURL
    \/ DoGetServersAtAddress
    \/ DoGetAssetClassInfo

SpecFlags == Init /\ [][NextFlags]_vars

----------------------------------------------------------------------------
\* One call of apiRequest or GetGroupMembers against the clock.  The caller
\* passes a context with a deadline or none and may cancel it; the call
\* derives its own context with context.WithTimeout and hands it to the
\* request.  client.Do and the reading of the body return with the
\* context's error as soon as the context is done.

NoDeadline == -1

\* The clock of the timed calls advances by this much
TimedStep == 5 * Second

CallerDeadlines == {NoDeadline, 10 * Second, 30 * Second}

\* context.WithTimeout(ctx, d) made at start: the deadline of the derived
\* context
WithTimeout(parentDeadline, start, d) ==
    IF parentDeadline # NoDeadline /\ parentDeadline < start + d
    THEN parentDeadline
    ELSE start + d

TimedRun(pc, op, start, parent, cancelled, deadline) ==
    [kind |-> "timed", pc |-> pc, op |-> op, start |-> start,
     parent |-> parent, cancelled |-> cancelled, deadline |-> deadline]

IdleTimed == TimedRun("idle", "none", 0, NoDeadline, FALSE, NoDeadline)

InitTimed ==
    /\ apiKey = KeyA
    /\ lang = DefaultLang
    /\ cacheValues = [k \in {} |-> NilAny]
    /\ now = 0
    /\ last = NoCall
    /\ run = IdleTimed

\* The context of the request is done: cancelled by the caller or past its
\* deadline
CtxDone == run.cancelled \/ now >= run.deadline

\* The call starts: the derived context is made and the request is sent
TimedStart ==
    /\ run.pc = "idle"
    /\ \E op \in {"apiRequest", "GetGroupMembers"},
          rel \in CallerDeadlines :
         LET parent == IF rel = NoDeadline THEN NoDeadline ELSE now + rel
         IN  run' = TimedRun("waiting", op, now, parent, FALSE,
                             WithTimeout(parent, now, defaultRequestTimeout))
    /\ UNCHANGED <<apiKey, lang, cacheValues, now, last>>

\* Time passes; a call whose context is done does not go on waiting
TimedTick ==
    /\ now + TimedStep <= MaxClock
    /\ run.pc = "waiting" => ~CtxDone
    /\ now' = now + TimedStep
    /\ UNCHANGED <<apiKey, lang, cacheValues, last, run>>

\* The caller cancels its context
TimedCancel ==
    /\ run.pc = "waiting"
    /\ ~run.cancelled
    /\ run' = [run EXCEPT !.cancelled = TRUE]
    /\ UNCHANGED <<apiKey, lang, cacheValues, now, last>>

\* What the call returns on the answer out; its record holds the run in arg
TimedReturn(out) ==
    LET r == IF run.op = "apiRequest"
             THEN LET a == apiRequest(apiKey, "/ISteamApps/GetAppList/v2/",
                                      EmptyValues, ZeroData, out)
                  IN  Ret(a.err, a.target, a.reqs, <<a>>)
             ELSE GetGroupMembers(GroupID(7, TRUE), out)
    IN  /\ last' = Call(run.op, run, apiKey, r.err, r.val, r.reqs, <<out>>,
                        r.calls, now)
        /\ run' = IdleTimed
        /\ UNCHANGED <<apiKey, lang, cacheValues, now>>

\* The response arrives while the context is live
TimedRespond ==
    /\ run.pc = "waiting"
    /\ ~CtxDone
    /\ IF run.op = "apiRequest"
       THEN \E out \in {MkOut("nil", StatusOK, TRUE, Data(1)),
                         MkOut("nil", StatusServiceUnavailable, TRUE,
                               ZeroData),
                         MkOut("transport", 0, FALSE, ZeroData)} :
              TimedReturn(out)
       ELSE \E out \in {GroupOut("nil", FALSE, <<Member(1, TRUE)>>),
                         GroupOut("transport", FALSE, <<>>)} :
              TimedReturn(out)

\* The context is done before the response has arrived: client.Do returns
\* the context's error
TimedAbandon ==
    /\ run.pc = "waiting"
    /\ CtxDone
    /\ LET kind == IF run.cancelled THEN "canceled" ELSE "deadline"
       IN  IF run.op = "apiRequest"
           THEN TimedReturn(MkOut(kind, 0, FALSE, ZeroData))
           ELSE TimedReturn(GroupOut(kind, FALSE, <<>>))

NextTimed ==
    \/ TimedStart
    \/ TimedTick
    \/ TimedCancel
    \/ TimedRespond
    \/ TimedAbandon

SpecTimed == InitTimed /\ [][NextTimed]_vars

\* The configuration calls on their own
NextConfig ==
    \/ SetKey
    \/ SetLang

SpecConfig == Init /\ [][NextConfig]_vars

\* The batch endpoints, with the key changing between calls
NextBatch ==
    \/ SetKey
    \/ DoPlayerSummaries
    \/ DoGetPlayerBans

SpecBatch == Init /\ [][NextBatch]_vars

----------------------------------------------------------------------------
\* Properties

\* The answer the stub gave to the i-th apiRequest invocation of the last
\* call (each invocation that sends makes exactly one Do call)
Sent(i) == last.calls[i].reqs # <<>>
AnswerTo(i) == last.outs[i]

\* C1: with no API key configured when it is called, apiRequest - and so
\* every endpoint call that goes through it - returns ErrNoAPIKey and makes
\* no call to the HTTP client's Do.
C1_NoKeyNoRequest ==
    (last.calls # <<>> /\ last.key = "") =>
        /\ \A i \in 1..Len(last.calls) :
              /\ last.calls[i].err = ErrNoAPIKey
              /\ last.calls[i].reqs = <<>>
        /\ last.err = ErrNoAPIKey
        /\ last.reqs = <<>>

C1_Witness ==
    /\ last.op = "GetSchemaItems"
    /\ last.key = ""
    /\ Len(last.calls) = 1
    /\ last.err = ErrNoAPIKey
    /\ last.reqs = <<>>

\* C2: every HTTP request that apiRequest sends carries key=<the configured
\* API key> and format=json, for every caller, also a caller that passes no
\* query parameters of its own (GetAppList passes nil).
C2_EveryRequestCarriesKeyAndFormat ==
    \A i \in 1..Len(last.calls) :
        \A j \in 1..Len(last.calls[i].reqs) :
            /\ HasParam(last.calls[i].reqs[j], "key", last.key)
            /\ HasParam(last.calls[i].reqs[j], "format", "json")

ProfileNumber(query0) ==
    LET query == RemoveSpaces(query0)
        q2    == TrimSlash(query)
    IN  ParseInt(SliceFrom(q2, Index(q2, purl) + Len(purl)))

IsNumericProfile(query0) ==
    /\ Contains(RemoveSpaces(query0), purl)
    /\ ProfileNumber(query0).err = NilErr

\* C5: given a steamcommunity.com/profiles/<n> URL whose numeric segment
\* parses as an integer but is not exactly 17 digits long,
\* ResolveVanityURL fails with a non-nil error and makes no HTTP request.
C5_ShortProfileRejected ==
    (/\ last.op = "ResolveVanityURL"
     /\ IsNumericProfile(last.arg)
     /\ Len(FormatInt(ProfileNumber(last.arg).value)) # steam64Len) =>
        /\ last.err # NilErr
        /\ last.reqs = <<>>

\* C6: GetGroupMembers returns a non-nil error whenever its HTTP call fails
\* (the caller's context cancelled or past its deadline included) or
\* reading the response body fails.
C6_GroupMembersFailureReported ==
    (/\ last.op = "GetGroupMembers"
     /\ last.outs # <<>>
     /\ (last.outs[1].err # "nil" \/ last.outs[1].readFails)) =>
        last.err # NilErr

\* C7: after set(key, v, e), a get(key) made before the entry expires
\* returns (v, true): the value get hands back is the value given to set.
C7_GetReturnsValueSet ==
    (/\ last.op = "get"
     /\ last.arg \in DOMAIN cacheValues
     /\ ~expired(cacheValues[last.arg], last.at)) =>
        /\ last.val.found
        /\ last.val.ret = cacheValues[last.arg].value

\* C8: get(key) reports found = false exactly when the key was never set or
\* the stored entry's age (now minus Created) is strictly greater than its
\* MaxAge (an entry whose age equals MaxAge is still found), for every
\* expiry given to set, 0 and negative ones included.
C8_FoundIffNotExpired ==
    last.op = "get" =>
        (~last.val.found <=>
            \/ last.arg \notin DOMAIN cacheValues
            \/ last.at - cacheValues[last.arg].Created
                  > cacheValues[last.arg].MaxAge)

C8_Witness ==
    /\ last.op = "get"
    /\ last.arg \in DOMAIN cacheValues
    /\ cacheValues[last.arg].MaxAge = Second
    /\ last.at - cacheValues[last.arg].Created = Second
    /\ last.val.found

\* The functions the package documentation lists as cached
CachedOps ==
    {"GetAppList", "GetStoreMetaData", "GetSchemaURL", "GetSchemaOverview",
     "GetSchemaItems", "GetSupportedAPIList"}

\* C9: results of the functions listed as cached are cached: after one
\* successful call, a second call to the same function made while the
\* cached entry has not expired issues no HTTP request and returns the
\* cached result.
C9_SecondCallServedFromCache ==
    [][(/\ last.op \in CachedOps
        /\ last.err = NilErr
        /\ last'.op = last.op
        /\ last'.arg = last.arg
        /\ last'.at - last.at <= cacheExpiry * Second) =>
           /\ last'.reqs = <<>>
           /\ last'.err = NilErr
           /\ last'.val = last.val]_vars

\* The position of the first answer of the script whose page has next = 0
FirstLastPage(script) ==
    CHOOSE i \in 1..Len(script) :
        /\ script[i].data.Next = 0
        /\ \A j \in 1..(i - 1) : script[j].data.Next # 0

\* The items of the first n pages of the script, in order
RECURSIVE ItemsOfFirst(_, _)
ItemsOfFirst(script, n) ==
    IF n = 0 THEN <<>>
    ELSE ItemsOfFirst(script, n - 1) \o script[n].data.Items

C11_AllPagesMerged ==
    (last.op = "GetSchemaItems" /\ last.err = NilErr) =>
        last.val = ItemsOfFirst(last.outs, Len(last.outs))

\* The first apiRequest invocation of the last call that returned an error
FirstFailedCall ==
    CHOOSE i \in 1..Len(last.calls) :
        /\ last.calls[i].err # NilErr
        /\ \A j \in 1..(i - 1) : last.calls[j].err = NilErr

\* C12: if a page request of GetSchemaItems fails, GetSchemaItems returns a
\* nil list with that error - the items of earlier pages are dropped - and
\* issues no further request.
C12_FailedPageAborts ==
    (/\ last.op = "GetSchemaItems"
     /\ \E i \in 1..Len(last.calls) : last.calls[i].err # NilErr) =>
        /\ last.val = <<>>
        /\ last.err = last.calls[FirstFailedCall].err
        /\ Len(last.calls) = FirstFailedCall
        /\ Len(last.reqs) <= FirstFailedCall

C12_Witness ==
    /\ last.op = "GetSchemaItems"
    /\ Len(last.calls) = 2
    /\ last.calls[1].err = NilErr
    /\ last.calls[1].target.Items = <<"a", "b">>
    /\ last.calls[2].err # NilErr
    /\ last.err = last.calls[2].err
    /\ last.val = <<>>

\* C13: each invocation of apiRequest with a key configured calls the HTTP
\* client's Do exactly once, whatever the outcome (transport error, decode
\* error, 503, 429, another status, success): nothing is retried.
C13_OneDoPerRequest ==
    (last.calls # <<>> /\ last.key # "") =>
        /\ \A i \in 1..Len(last.calls) : Len(last.calls[i].reqs) = 1
        /\ Len(last.reqs) = Len(last.calls)
        /\ Len(last.outs) = Len(last.calls)

C13_Witness ==
    /\ last.op = "GetStoreMetaData"
    /\ last.key # ""
    /\ Len(last.calls) = 1
    /\ last.outs[1].err = "transport"
    /\ last.err # NilErr
    /\ Len(last.reqs) = 1

\* C17: SetKey rejects a key whose length is neither 0 nor 32 with an error
\* and leaves the stored key as it was; it accepts a key of length 32 and
\* the empty key and stores it; so the stored key always has length 0 or
\* 32.  Lengths are those of Go's len().
C17_KeyLengthValidated ==
    /\ Len(apiKey) \in {0, 32}
    /\ last.op = "SetKey" =>
          IF Len(last.arg) \notin {0, 32}
          THEN last.err # NilErr /\ apiKey = last.key
          ELSE last.err = NilErr /\ apiKey = last.arg

C17_Witness ==
    /\ last.op = "SetKey"
    /\ last.arg = "short"
    /\ last.err # NilErr
    /\ last.key = KeyA
    /\ apiKey = KeyA

\* The text between profiles/ and the end of a query, less one trailing
\* slash and the spaces
ProfileSegment(query0) ==
    LET q  == RemoveSpaces(query0)
        q2 == IF q[Len(q)] = "/" THEN SubSeq(q, 1, Len(q) - 1) ELSE q
    IN  SliceFrom(q2, Index(q2, purl) + Len(purl))

\* The query is a profiles/<n> URL with n a number of 17 digits
IsSteam64Profile(query0) ==
    /\ Contains(RemoveSpaces(query0), purl)
    /\ LET seg == ProfileSegment(query0)
       IN  /\ Len(seg) = 17
           /\ \A i \in 1..Len(seg) : IsDigit(seg[i])
           /\ seg[1] # "0"

\* C20: given a steamcommunity.com/profiles/<n> URL, with or without a
\* trailing slash, where n is a 17-digit number, ResolveVanityURL returns
\* the id n with a nil error and makes no HTTP request, with or without an
\* API key.
C20_ProfileShortCircuit ==
    (last.op = "ResolveVanityURL" /\ IsSteam64Profile(last.arg)) =>
        /\ last.err = NilErr
        /\ last.val = SteamIDNew(Int64(FALSE, ProfileSegment(last.arg)))
        /\ last.reqs = <<>>
        /\ last.calls = <<>>

C20_Witness ==
    /\ last.op = "ResolveVanityURL"
    /\ IsSteam64Profile(last.arg)
    /\ last.arg[Len(last.arg)] = "/"
    /\ last.key = ""
    /\ last.err = NilErr
    /\ last.val # ZeroSteamID
    /\ last.reqs = <<>>

\* C18: SetLang rejects a string whose length is not 5 with an error and
\* leaves the stored language as it was; a string of length 5 is accepted
\* and stored lower-cased, so that a repeated call changes nothing; the
\* stored language is always 5 long.
C18_LangFiveLong ==
    /\ ByteLen(lang) = 5
    /\ Len(lang) = 5
    /\ last.op = "SetLang" =>
          IF ByteLen(last.arg) # 5
          THEN last.err # NilErr /\ lang = last.val
          ELSE /\ last.err = NilErr
               /\ lang = ToLower(last.arg)
               /\ setLang(lang, last.arg).lang = lang

\* C19: PlayerSummaries and GetPlayerBans fail with a validation error and
\* make no HTTP request when given 0 or more than 100 steam ids; with 1 to
\* 100 ids and a key configured they issue exactly one request.
C19_BatchBounds ==
    (last.op \in {"PlayerSummaries", "GetPlayerBans"}) =>
        IF Len(last.arg) = 0 \/ Len(last.arg) > 100
        THEN /\ last.err # NilErr
             /\ last.err.kind = "new"
             /\ last.val = <<>>
             /\ last.reqs = <<>>
             /\ last.calls = <<>>
        ELSE last.key # "" =>
               /\ Len(last.reqs) = 1
               /\ Len(last.calls) = 1
               /\ HasParamName(last.reqs[1], "steamids")

C19_Witness ==
    /\ last.op = "GetPlayerBans"
    /\ Len(last.arg) = 100
    /\ last.key # ""
    /\ Len(last.reqs) = 1
    /\ last.err = NilErr
    /\ last.val = <<"p1", "p2">>

\* C16: after two sets in sequence on one key, the entry's Created and
\* MaxAge are those of the second set, and a get made before that entry
\* expires returns the second value and nothing of the first, even when
\* the first set had the longer expiry.
C16_SecondSetWins ==
    [][(/\ last.op = "set"
        /\ last.val # NilAny
        /\ last'.op = "get"
        /\ last'.arg = last.arg[1]) =>
          LET key == last.arg[1]
              exp == IF Len(last.arg[3]) > 0 THEN last.arg[3][1]
                     ELSE cacheExpiry
          IN  /\ cacheValues[key].Created = last.at
              /\ cacheValues[key].MaxAge = exp * Second
              /\ cacheValues[key].value = last.arg[2]
              /\ ~expired(cacheValues[key], last'.at) =>
                    /\ last'.val.found
                    /\ last'.val.ret = last.arg[2]]_vars

\* C14: with SetKey running beside apiRequest, the key apiRequest tests for
\* emptiness and the key it puts into the request are one snapshot: a
\* request handed to the HTTP client carries the key that was tested, and
\* never an empty key parameter.
C14_KeySnapshot ==
    (last.op = "apiRequest" /\ last.reqs # <<>>) =>
        /\ HasParam(last.reqs[1], "key", last.key)
        /\ ~HasParam(last.reqs[1], "key", "")

\* A caller is inside the critical section of get or of set
InGet(t) == run.thr[t].pc \in {"read", "runlock"}
InSet(t) == run.thr[t].pc \in {"store", "storing", "unlock"}

\* An entry as one of the sets stores it
WholeEntry(v) ==
    \E args \in SetInputs :
      v = cacheValue(0, (IF Len(args[2]) > 0 THEN args[2][1]
                         ELSE cacheExpiry) * Second, args[1])

\* C15: with concurrent callers of get and set, a set does its map write
\* with no get and no other set inside its critical section, while several
\* gets may be inside at once; a get sees the map as it was before or after
\* a concurrent set, never a mixture; and every call made returns.
C15_CacheConcurrency ==
    /\ [](\A t \in Threads :
            InSet(t) => \A u \in Threads \ {t} : ~InGet(u) /\ ~InSet(u))
    /\ [](\A t \in Threads :
            run.thr[t].pc = "runlock" =>
                \/ run.thr[t].ret = GetRet(NilAny, FALSE)
                \/ /\ WholeEntry(run.thr[t].ret.ret)
                   /\ run.thr[t].ret.found)
    /\ \A t \in Threads :
          (run.thr[t].pc # "idle") ~> (run.thr[t].pc = "done")

\* Two gets inside at once, one of them with an entry a set has stored
C15_Witness ==
    /\ InGet(1)
    /\ InGet(2)
    /\ run.thr[2].pc = "runlock"
    /\ run.thr[2].ret.found
    /\ run.thr[3].pc = "done"

\* The four ways of writing the vanity name: bare, padded with spaces, in
\* an id/ URL, and in an id/ URL with a trailing slash
NameForms ==
    {VanityName,
     <<" ", " ">> \o VanityName \o <<" ", " ", " ">>,
     https \o idurl \o VanityName,
     https \o idurl \o VanityName \o <<"/">>}

\* C21: for a vanity name N without spaces, the inputs N, N padded with
\* spaces, https://steamcommunity.com/id/N and the same with a trailing
\* slash all make ResolveVanityURL issue the remote call with vanityurl = N
\* and hand back what the call on N hands back for the same answer.
C21_NameFormsAgree ==
    (last.op = "ResolveVanityURL" /\ last.arg \in NameForms) =>
        /\ last.key # "" =>
              /\ Len(last.reqs) = 1
              /\ HasParam(last.reqs[1], "vanityurl", VanityName)
        /\ LET out == IF last.outs = <<>>
                      THEN CHOOSE o \in ResolveOutcomes : TRUE
                      ELSE last.outs[1]
               r   == vanityResolve(last.key, VanityName, out)
           IN  /\ last.err = r.err
               /\ last.val = r.val
               /\ last.reqs = r.reqs

C21_Witness ==
    /\ last.op = "ResolveVanityURL"
    /\ last.arg = <<" ", " ">> \o VanityName \o <<" ", " ", " ">>
    /\ last.key # ""
    /\ HasParam(last.reqs[1], "vanityurl", VanityName)
    /\ last.err = NilErr
    /\ last.val = SquirrellyID

\* The payload of the answer signals failure by the endpoint's own
\* indicator
SignalsFailure(op, data) ==
    CASE op = "UpToDateCheck" -> ~data.Success
      [] op = "GetNumberOfCurrentPlayers" -> data.Result # 1
      [] op = "GetSchemaURL" -> data.Status # 1
      [] op = "GetServersAtAddress" -> ~data.Success
      [] op = "GetAssetClassInfo" ->
            data.success \in {"absent", "false"}
      [] OTHER -> FALSE

\* C22: when the status is 200 and the body decodes but the payload's own
\* success indicator signals failure, the endpoint returns the
\* ErrInvalidResponse sentinel, for UpToDateCheck,
\* GetNumberOfCurrentPlayers, GetSchemaURL, GetServersAtAddress and
\* GetAssetClassInfo.
C22_FailureIsInvalidResponse ==
    (/\ last.outs # <<>>
     /\ last.outs[1].err = "nil"
     /\ last.outs[1].status = StatusOK
     /\ last.outs[1].valid
     /\ SignalsFailure(last.op, last.outs[1].data)) =>
        ErrorsIs(last.err, ErrInvalidResponse)

\* The latest call is a timed call of op
TimedCall(op) == last.op = op /\ last.arg.kind = "timed"

\* C23: apiRequest and GetGroupMembers run their HTTP call under a context
\* whose deadline is the earlier of the caller's deadline and 20 seconds
\* after the start: the call has returned no later than 20 seconds after
\* its start whatever the caller's deadline, with a non-nil error when it
\* was abandoned at the deadline, and apiRequest returns a non-nil error
\* when the caller cancels before the response arrives.
C23_TwentySecondCeiling ==
    /\ run.pc = "waiting" => now <= run.start + 20 * Second
    /\ (TimedCall("apiRequest") \/ TimedCall("GetGroupMembers")) =>
          /\ last.at <= last.arg.start + 20 * Second
          /\ last.arg.parent # NoDeadline => last.at <= last.arg.parent
          /\ last.outs[1].err = "deadline" => last.err # NilErr
    /\ (TimedCall("apiRequest") /\ last.outs[1].err = "canceled") =>
          last.err # NilErr

\* C24: whenever the HTTP client hands a response to apiRequest, the body
\* is closed exactly once before apiRequest returns, on every exit path
\* (decode failure, 503, 429, another status, success); with no response
\* there is nothing to close.
C24_BodyClosedOnce ==
    \A i \in 1..Len(last.calls) :
        IF Sent(i) /\ AnswerTo(i).err = "nil"
        THEN last.calls[i].closed = 1
        ELSE last.calls[i].closed = 0

C24_Witness ==
    /\ last.op = "GetSchemaOverview"
    /\ Len(last.calls) = 1
    /\ Sent(1)
    /\ AnswerTo(1).err = "nil"
    /\ ~AnswerTo(1).valid
    /\ AnswerTo(1).status = StatusTooManyRequests
    /\ last.err # NilErr
    /\ last.calls[1].closed = 1

\* C25: get never changes the cache - an expired entry stays in the map
\* after get has reported it absent - and nothing removes a key: the keys
\* present only grow, and an entry changes only when a set on its key
\* overwrites it.
C25_GetLeavesCacheAlone ==
    [][/\ DOMAIN cacheValues \subseteq DOMAIN cacheValues'
       /\ (last' # last /\ last'.op = "get") => cacheValues' = cacheValues
       /\ \A k \in DOMAIN cacheValues :
             cacheValues'[k] # cacheValues[k] =>
                /\ last'.op = "set"
                /\ last'.arg[1] = k
                /\ last' # last]_vars

\* A get has reported an expired entry absent, and the entry is still there
C25_Witness ==
    /\ last.op = "get"
    /\ ~last.val.found
    /\ last.arg \in DOMAIN cacheValues
    /\ expired(cacheValues[last.arg], last.at)
    /\ last.val.ret = cacheValues[last.arg]

\* C26: GetSchemaItems sends its first request with start=0 and each later
\* request with start equal to the next cursor of the response just before
\* it, one request after the other, and sends nothing after a response
\* with next = 0 or after a failed request.
C26_CursorFollowsNext ==
    (last.op = "GetSchemaItems" /\ last.reqs # <<>>) =>
        /\ Len(last.reqs) = Len(last.calls)
        /\ HasParam(last.reqs[1], "start", "0")
        /\ \A i \in 2..Len(last.reqs) :
              /\ last.reqs[i] = last.calls[i].reqs[1]
              /\ HasParam(last.reqs[i], "start",
                          ToString(AnswerTo(i - 1).data.Next))
        /\ \A i \in 1..(Len(last.reqs) - 1) :
              /\ last.calls[i].err = NilErr
              /\ AnswerTo(i).data.Next # 0

C26_Witness ==
    /\ last.op = "GetSchemaItems"
    /\ Len(last.reqs) = 3
    /\ HasParam(last.reqs[1], "start", "0")
    /\ AnswerTo(1).data.Next = 2
    /\ HasParam(last.reqs[2], "start", "2")
    /\ AnswerTo(2).data.Next = 1
    /\ HasParam(last.reqs[3], "start", "1")
    /\ AnswerTo(3).data.Next = 0
    /\ last.err = NilErr

----------------------------------------------------------------------------
\* The cache with the expiry argument and MaxAge at their Go width.  set
\* takes the expiry as an int and stores time.Duration(exp) * time.Second,
\* an int64 count of nanoseconds; the product wraps around modulo 2^64.

\* A natural number as its decimal digits
RECURSIVE IntDigits(_)
IntDigits(n) ==
    IF n < 10 THEN <<Digits[n + 1]>>
    ELSE IntDigits(n \div 10) \o <<Digits[(n % 10) + 1]>>

ToInt64(n) ==
    IF n < 0 THEN Int64(TRUE, IntDigits(0 - n)) ELSE Int64(FALSE, IntDigits(n))

Zeros(n) == [i \in 1..n |-> "0"]

\* ds <= es for digit strings without leading zeros
MagLeq(ds, es) ==
    \/ Len(ds) < Len(es)
    \/ Len(ds) = Len(es) /\ DigitsLeq(ds, es)

\* a > b over signed values
Int64Gt(a, b) ==
    IF a.neg # b.neg THEN b.neg
    ELSE IF a.neg THEN ~MagLeq(b.digits, a.digits)
    ELSE ~MagLeq(a.digits, b.digits)

\* The digits of a - b from position i down, a and b of one length, a >= b
RECURSIVE SubDigits(_, _, _, _)
SubDigits(a, b, i, borrow) ==
    IF i = 0 THEN <<>>
    ELSE LET d == DigitVal(a[i]) - DigitVal(b[i]) - borrow
         IN  SubDigits(a, b, i - 1, IF d < 0 THEN 1 ELSE 0)
                 \o <<Digits[(IF d < 0 THEN d + 10 ELSE d) + 1]>>

MagMinus(a, b) ==
    StripZeros(SubDigits(a, Zeros(Len(a) - Len(b)) \o b, Len(a), 0))

TwoTo64Digits == <<"1", "8", "4", "4", "6", "7", "4", "4", "0", "7", "3", "7", "0", "9", "5", "5", "1", "6", "1", "6">>

\* The int64 holding the integer of sign neg and magnitude ds after
\* two's-complement wrap-around
RECURSIVE WrapInt64(_, _)
WrapInt64(neg, ds) ==
    IF ds = <<"0">> THEN Int64Zero
    ELSE IF MagLeq(ds, IF neg THEN MinInt64Digits ELSE MaxInt64Digits)
    THEN Int64(neg, ds)
    ELSE IF MagLeq(TwoTo64Digits, ds)
    THEN WrapInt64(neg, MagMinus(ds, TwoTo64Digits))
    ELSE Int64(~neg, MagMinus(TwoTo64Digits, ds))

\* exp seconds as the integer count of nanoseconds, without a width
SecondsExact(exp) ==
    IF exp.digits = <<"0">> THEN Int64Zero
    ELSE Int64(exp.neg, exp.digits \o Zeros(9))

\* time.Duration(exp) * time.Second
DurationSeconds(exp) ==
    LET product == SecondsExact(exp)
    IN  WrapInt64(product.neg, product.digits)

\* The time.Duration between two clock readings age ticks apart
Since(age) ==
    IF age = 0 THEN Int64Zero
    ELSE Int64(FALSE, IntDigits(age * (10 \div Second)) \o Zeros(8))

\* cacheValue.expired with time.Now() = t, MaxAge an int64 of nanoseconds
expiredInt64(v, t) == Int64Gt(Since(t - v.Created), v.MaxAge)

\* memoryCache.get over such entries
cacheGetInt64(values, key, t) ==
    IF key \notin DOMAIN values
    THEN GetRet(NilAny, FALSE)
    ELSE LET v == values[key]
         IN  IF expiredInt64(v, t)
             THEN GetRet(v, FALSE)
             ELSE GetRet(v, TRUE)

\* memoryCache.set storing MaxAge as the int64 it computes
cacheSetInt64(values, key, value, customExpiry, t) ==
    LET exp == IF Len(customExpiry) > 0 THEN customExpiry[1]
               ELSE ToInt64(cacheExpiry)
        cv  == cacheValue(t, DurationSeconds(exp), value)
    IN  [k \in (DOMAIN values) \cup {key} |->
            IF k = key THEN cv ELSE values[k]]

\* Expiries a caller can pass: none, negative, zero, one second, and the
\* two values either side of the largest count of seconds whose
\* nanoseconds fit an int64
MaxSecondsDigits == <<"9", "2", "2", "3", "3", "7", "2", "0", "3", "6">>
OverSecondsDigits == <<"9", "2", "2", "3", "3", "7", "2", "0", "3", "7">>
Int64Expiries ==
    {<<>>, <<ToInt64(-1)>>, <<ToInt64(0)>>, <<ToInt64(1)>>,
     <<Int64(FALSE, MaxSecondsDigits)>>, <<Int64(FALSE, OverSecondsDigits)>>}

CacheGetInt64 ==
    \E key \in CacheKeys :
      /\ last' = Call("get", key, apiKey, NilErr,
                      cacheGetInt64(cacheValues, key, now),
                      <<>>, <<>>, <<>>, now)
      /\ UNCHANGED <<apiKey, lang, cacheValues, now, run>>

CacheSetInt64 ==
    \E key \in CacheKeys, value \in CacheData, customExpiry \in Int64Expiries :
      /\ cacheValues' =
             cacheSetInt64(cacheValues, key, value, customExpiry, now)
      /\ last' = Call("set", <<key, value, customExpiry>>, apiKey, NilErr,
                      NilAny, <<>>, <<>>, <<>>, now)
      /\ UNCHANGED <<apiKey, lang, now, run>>

NextExpiry ==
    \/ CacheGetInt64
    \/ CacheSetInt64
    \/ Tick

SpecExpiry == Init /\ [][NextExpiry]_vars

\* C27: after set(key, value) the entry's max age is 900 seconds, after
\* set(key, value, e) it is exactly e seconds, and from then on get
\* reports the entry found at every age up to and including that many
\* seconds and absent at every later age
C27_MaxAgeIsExpirySeconds ==
    last.op = "set" =>
        LET key  == last.arg[1]
            e    == IF Len(last.arg[3]) > 0 THEN last.arg[3][1]
                    ELSE ToInt64(900)
            v    == cacheValues[key]
        IN  /\ v.MaxAge = SecondsExact(e)
            /\ \A t \in last.at..MaxNow :
                   cacheGetInt64(cacheValues, key, t).found
                       <=> ~Int64Gt(Since(t - last.at), SecondsExact(e))

----------------------------------------------------------------------------
\* GetSchemaItems one loop iteration at a time: the request goes out, the
\* transport answers it or fails, apiRequest returns and the loop either
\* returns or goes round again.

PageRet(err, items, page, done) ==
    [err |-> err, items |-> items, page |-> page, done |-> done]

\* Variant: the loop giving up when a response repeats the cursor it was
\* asked for
schemaItemsPageOnce(key, appID, page, items, out) ==
    LET r == apiRequest(key, EconPath(appID, "GetSchemaItems/v1/"),
                        MkValues("start" :> ToString(page)), ZeroPage, out)
    IN  IF r.err # NilErr
        THEN PageRet(r.err, <<>>, page, TRUE)
        ELSE IF r.target.Next = 0 \/ r.target.Next = page
        THEN PageRet(NilErr, items, page, TRUE)
        ELSE PageRet(NilErr, items \o r.target.Items,
                     nextPage(page, r.target), FALSE)

\* The body of the for loop, its apiRequest answered with out
schemaItemsPage(key, appID, page, items, out) ==
    LET r == apiRequest(key, EconPath(appID, "GetSchemaItems/v1/"),
                        MkValues("start" :> ToString(page)), ZeroPage, out)
    IN  IF r.err # NilErr
        THEN PageRet(r.err, <<>>, page, TRUE)
        ELSE IF r.target.Next = 0
        THEN PageRet(NilErr, items, page, TRUE)
        ELSE PageRet(NilErr, items \o r.target.Items,
                     nextPage(page, r.target), FALSE)

\* An answer that makes the request fail or carries next = 0
EndsPaging(out) ==
    LET r == apiRequest(KeyA, EconPath(440, "GetSchemaItems/v1/"),
                        MkValues("start" :> "0"), ZeroPage, out)
    IN  r.err # NilErr \/ r.target.Next = 0

\* pc is "request" before a page is requested, "wait" while the request
\* is out, "answered" once the transport has the answer, "returned" after
\* the return; outs are the answers given to this call so far
PagingRun(pc, page, items, outs, err) ==
    [kind |-> "paging", pc |-> pc, page |-> page, items |-> items,
     outs |-> outs, err |-> err]

InPaging(pc) == run # NoRun /\ run.pc = pc

InitPaging ==
    /\ apiKey = KeyA
    /\ lang = DefaultLang
    /\ cacheValues = [k \in {} |-> NilAny]
    /\ now = 0
    /\ last = NoCall
    /\ run = NoRun

PagingCall ==
    /\ IF run = NoRun THEN TRUE ELSE run.pc = "returned"
    /\ run' = PagingRun("request", 0, <<>>, <<>>, NilErr)
    /\ UNCHANGED <<apiKey, lang, cacheValues, now, last>>

PagingRequest ==
    /\ InPaging("request")
    /\ run' = [run EXCEPT !.pc = "wait"]
    /\ UNCHANGED <<apiKey, lang, cacheValues, now, last>>

\* The server is free to answer with a further cursor MaxPages times in
\* one call
PagingAnswer ==
    \E out \in PageOutcomes :
      /\ InPaging("wait")
      /\ Len(run.outs) < MaxPages \/ EndsPaging(out)
      /\ run' = [run EXCEPT !.pc = "answered", !.outs = Append(@, out)]
      /\ UNCHANGED <<apiKey, lang, cacheValues, now, last>>

PagingTurn ==
    /\ InPaging("answered")
    /\ LET r == schemaItemsPage(apiKey, 440, run.page, run.items,
                                run.outs[Len(run.outs)])
       IN  run' = [run EXCEPT !.pc = IF r.done THEN "returned" ELSE "request",
                              !.page = r.page, !.items = r.items,
                              !.err = r.err]
    /\ UNCHANGED <<apiKey, lang, cacheValues, now, last>>

NextPaging ==
    \/ PagingCall
    \/ PagingRequest
    \/ PagingAnswer
    \/ PagingTurn

\* The goroutine running the call is scheduled; the server owes no answer
SpecPaging ==
    /\ InitPaging
    /\ [][NextPaging]_vars
    /\ WF_vars(PagingRequest)
    /\ WF_vars(PagingTurn)

\* C28: GetSchemaItems has returned only if an answer failed the request
\* or carried next = 0, and while no answer has done so it has not
\* returned; an answer that does so makes the call return, and any other
\* answer, a repeated cursor included, makes it request a further page
C28_ReturnsIffPagingEnds ==
    /\ [](InPaging("returned") =>
              \E i \in 1..Len(run.outs) : EndsPaging(run.outs[i]))
    /\ []((run # NoRun /\ \A i \in 1..Len(run.outs) : ~EndsPaging(run.outs[i]))
              => ~InPaging("returned"))
    /\ \A out \in PageOutcomes : \A n \in 1..(MaxPages + 1) :
          (InPaging("answered") /\ Len(run.outs) = n /\ run.outs[n] = out)
              ~> IF EndsPaging(out)
                 THEN InPaging("returned")
                 ELSE InPaging("wait") /\ Len(run.outs) = n
                          /\ run.page = out.data.Next

\* The same cursor answered twice, then the call returned
C28_Witness ==
    /\ InPaging("returned")
    /\ Len(run.outs) = MaxPages + 1
    /\ run.outs[1] = run.outs[2]
    /\ ~EndsPaging(run.outs[1])

\* C29: when the remote resolution call is answered with status 200 and a
\* body that decodes but whose success field is not 1, ResolveVanityURL
\* returns a non-nil error, never a nil error with the zero SteamID
C29_UnresolvedIsError ==
    (/\ last.op = "ResolveVanityURL"
     /\ last.outs # <<>>
     /\ last.outs[1].err = "nil"
     /\ last.outs[1].status = StatusOK
     /\ last.outs[1].valid
     /\ last.outs[1].data.Success # 1) =>
        /\ last.err # NilErr
        /\ ~(last.err = NilErr /\ last.val = ZeroSteamID)

\* C30: an id that ResolveVanityURL returns from the profiles/ branch is a
\* positive integer of exactly 17 decimal digits; a segment made of a
\* minus sign and 16 digits is not accepted as an id
C30_ProfileIdSeventeenDigits ==
    (/\ last.op = "ResolveVanityURL"
     /\ Contains(RemoveSpaces(last.arg), purl)
     /\ last.err = NilErr) =>
        /\ ~last.val.sid.neg
        /\ Len(last.val.sid.digits) = 17
        /\ last.val.sid.digits[1] # "0"

====
